---- MODULE Spec2Model ----
(***************************************************************************)
(* Model of the Apache Unomi MCP server: the argument validators and the   *)
(* session id generator of types.ts, and the startup checks, scope         *)
(* ensurer, profile resolver, tool dispatcher and resource reader of the   *)
(* server module.  Every remote HTTP call is one step whose outcome (a     *)
(* transport failure, or a response of some status and body) is chosen by  *)
(* the remote service.                                                     *)
(***************************************************************************)
EXTENDS Integers, Sequences, FiniteSets, TLC

(***************************************************************************)
(* JavaScript values.  A value is a record tagged by t; an object carries  *)
(* a function f from its own keys to values, an array a sequence e.        *)
(* Thrown stands for the evaluation of an expression that raised a         *)
(* TypeError.                                                              *)
(***************************************************************************)
Undefined == [t |-> "undefined"]
Null == [t |-> "null"]
Thrown == [t |-> "TypeError"]
Str(s) == [t |-> "string", s |-> s]
Num(n) == [t |-> "number", n |-> n]
Bool(b) == [t |-> "boolean", b |-> b]
Obj(f) == [t |-> "object", f |-> f]
Arr(e) == [t |-> "array", e |-> e]

\* The empty key-value map, and the maps from a subset of K to V.
NoFields == [k \in {} |-> Undefined]
Maps(K, V) == UNION {[D -> V] : D \in SUBSET K}

\* Three-valued outcome of a boolean JavaScript expression: it evaluates to
\* true, to false, or it throws.
T == "true"
F == "false"
E == "TypeError"
B(b) == IF b THEN T ELSE F

\* a && b and a || b, evaluated left to right with short circuit.
AndThen(a, b) == IF a = T THEN b ELSE a
OrElse(a, b) == IF a = F THEN b ELSE a

\* typeof v: arrays and null are "object".
TypeOf(v) == IF v.t \in {"null", "object", "array"} THEN "object" ELSE v.t

\* typeof v === ty
TypeOfIs(v, ty) == IF v = Thrown THEN E ELSE B(TypeOf(v) = ty)

\* v === w and v !== w for w a primitive constant (undefined, null)
StrictEq(v, w) == IF v = Thrown THEN E ELSE B(v = w)
StrictNe(v, w) == IF v = Thrown THEN E ELSE B(v # w)

\* The own keys of v that are not array indices.
NamedKeys(v) == IF v.t = "object" THEN DOMAIN v.f ELSE {}

\* k in v, for a key k that is no array index: a TypeError unless v is an
\* object or an array.
In(k, v) == IF v.t \in {"object", "array"} THEN B(k \in NamedKeys(v)) ELSE E

\* v.k, for a key k that is no array index: a TypeError on null and
\* undefined, undefined when v has no such key.
Prop(v, k) ==
  IF v.t \in {"null", "undefined", "TypeError"} THEN Thrown
  ELSE IF k \in NamedKeys(v) THEN v.f[k]
  ELSE Undefined

\* The values of Object.entries(v): the members of an object, the elements
\* of an array.
EntryValues(v) ==
  IF v.t = "object" THEN {v.f[k] : k \in DOMAIN v.f}
  ELSE IF v.t = "array" THEN {v.e[i] : i \in 1..Len(v.e)}
  ELSE {}

\* Object.keys(v).length
KeyCount(v) ==
  IF v.t = "object" THEN Cardinality(DOMAIN v.f)
  ELSE IF v.t = "array" THEN Len(v.e)
  ELSE 0

\* Truthiness of a value: undefined, null, "", 0 and false are falsy.
Truthy(v) ==
  /\ v.t \notin {"undefined", "null"}
  /\ v.t = "string" => v.s # ""
  /\ v.t = "number" => v.n # 0
  /\ v.t = "boolean" => v.b

(***************************************************************************)
(* Argument validators (types.ts).                                         *)
(***************************************************************************)
isValidGetProfileArgs(args) ==
  AndThen(TypeOfIs(args, "object"),
  AndThen(StrictNe(args, Null),
  AndThen(In("profileId", args),
          TypeOfIs(Prop(args, "profileId"), "string"))))

isValidSearchProfilesArgs(args) ==
  AndThen(TypeOfIs(args, "object"),
  AndThen(StrictNe(args, Null),
  AndThen(In("query", args),
  AndThen(TypeOfIs(Prop(args, "query"), "string"),
  AndThen(OrElse(StrictEq(Prop(args, "limit"), Undefined),
                 TypeOfIs(Prop(args, "limit"), "number")),
          OrElse(StrictEq(Prop(args, "offset"), Undefined),
                 TypeOfIs(Prop(args, "offset"), "number")))))))

isValidGetMyProfileArgs(args) ==
  AndThen(TypeOfIs(args, "object"),
  AndThen(StrictNe(args, Null),
  AndThen(OrElse(StrictEq(Prop(args, "requireSegments"), Undefined),
                 TypeOfIs(Prop(args, "requireSegments"), "boolean")),
          OrElse(StrictEq(Prop(args, "requireScores"), Undefined),
                 TypeOfIs(Prop(args, "requireScores"), "boolean")))))

\* The callback of every(): value === null || typeof value is string,
\* number or boolean.
isPrimitiveOrNull(value) ==
  OrElse(StrictEq(value, Null),
  OrElse(TypeOfIs(value, "string"),
  OrElse(TypeOfIs(value, "number"),
         TypeOfIs(value, "boolean"))))

\* Object.entries(v).every(callback): a TypeError on null and undefined.
EntriesEvery(v) ==
  IF v.t \in {"null", "undefined", "TypeError"} THEN E
  ELSE B(\A value \in EntryValues(v) : isPrimitiveOrNull(value) = T)

isValidUpdateMyProfileArgs(args) ==
  AndThen(TypeOfIs(args, "object"),
  AndThen(StrictNe(args, Null),
  AndThen(In("properties", args),
  AndThen(TypeOfIs(Prop(args, "properties"), "object"),
  AndThen(StrictNe(Prop(args, "properties"), Null),
          EntriesEvery(Prop(args, "properties")))))))

isValidCreateScopeArgs(args) ==
  AndThen(TypeOfIs(args, "object"),
  AndThen(StrictNe(args, Null),
  AndThen(In("scope", args),
  AndThen(TypeOfIs(Prop(args, "scope"), "string"),
  AndThen(OrElse(StrictEq(Prop(args, "name"), Undefined),
                 TypeOfIs(Prop(args, "name"), "string")),
          OrElse(StrictEq(Prop(args, "description"), Undefined),
                 TypeOfIs(Prop(args, "description"), "string")))))))

(***************************************************************************)
(* Session id generator (types.ts).  The clock counts half days from       *)
(* 2024-12-31T00:00Z, so that two instants of one UTC day differ and the   *)
(* first change of day also changes the month and the year.                *)
(***************************************************************************)
IsLeap(y) == (y % 4 = 0 /\ y % 100 # 0) \/ y % 400 = 0

DaysInMonth(y, m) ==
  IF m = 2 THEN (IF IsLeap(y) THEN 29 ELSE 28)
  ELSE IF m \in {4, 6, 9, 11} THEN 30
  ELSE 31

RECURSIVE Normalise(_)
Normalise(date) ==
  IF date.d <= DaysInMonth(date.y, date.m) THEN date
  ELSE Normalise([y |-> IF date.m = 12 THEN date.y + 1 ELSE date.y,
                  m |-> IF date.m = 12 THEN 1 ELSE date.m + 1,
                  d |-> date.d - DaysInMonth(date.y, date.m)])

\* new Date(): the UTC calendar date and hour of clock value n.
UtcDate(n) == Normalise([y |-> 2024, m |-> 12, d |-> 31 + (n \div 2)])
UtcHour(n) == 12 * (n % 2)

Digit(n) ==
  CASE n = 0 -> "0" [] n = 1 -> "1" [] n = 2 -> "2" [] n = 3 -> "3"
    [] n = 4 -> "4" [] n = 5 -> "5" [] n = 6 -> "6" [] n = 7 -> "7"
    [] n = 8 -> "8" [] n = 9 -> "9"

\* The decimal digits of n, zero-padded to width w, one character each.
RECURSIVE Pad(_, _)
Pad(n, w) == IF w = 0 THEN <<>> ELSE Append(Pad(n \div 10, w - 1), Digit(n % 10))

\* Date.prototype.toISOString(), as a sequence of characters.
toISOString(n) ==
  Pad(UtcDate(n).y, 4) \o <<"-">> \o Pad(UtcDate(n).m, 2) \o <<"-">>
    \o Pad(UtcDate(n).d, 2) \o <<"T">> \o Pad(UtcHour(n), 2)
    \o <<":", "0", "0", ":", "0", "0", ".", "0", "0", "0", "Z">>

\* chars.split(sep)[0]: the characters before the first sep.
RECURSIVE SplitFirst(_, _)
SplitFirst(chars, sep) ==
  IF chars = <<>> \/ Head(chars) = sep THEN <<>>
  ELSE <<Head(chars)>> \o SplitFirst(Tail(chars), sep)

\* chars.replace(/c/g, ''): every occurrence of c removed.
RECURSIVE RemoveAll(_, _)
RemoveAll(chars, c) ==
  IF chars = <<>> THEN <<>>
  ELSE IF Head(chars) = c THEN RemoveAll(Tail(chars), c)
  ELSE <<Head(chars)>> \o RemoveAll(Tail(chars), c)

\* The string made of a sequence of characters.
RECURSIVE Join(_)
Join(chars) == IF chars = <<>> THEN "" ELSE Head(chars) \o Join(Tail(chars))

\* generateSessionId(profileId), called at clock value n.
\* A session id that keeps the time of day of the timestamp.
generateSessionIdWithTime(profileId, n) ==
  profileId \o "-" \o Join(RemoveAll(toISOString(n), "-"))

generateSessionId(profileId, n) ==
  profileId \o "-" \o Join(RemoveAll(SplitFirst(toISOString(n), "T"), "-"))

(***************************************************************************)
(* JSON serialisation: members whose value is undefined are left out.      *)
(***************************************************************************)
RECURSIVE Json(_)
Json(v) ==
  IF v.t = "object"
    THEN Obj([k \in {j \in DOMAIN v.f : v.f[j] # Undefined} |-> Json(v.f[k])])
  ELSE IF v.t = "array"
    THEN Arr([i \in 1..Len(v.e) |-> IF v.e[i] = Undefined THEN Null ELSE Json(v.e[i])])
  ELSE v

(***************************************************************************)
(* Bounds and the values the environment supplies.                         *)
(***************************************************************************)
\* The longest profile list a search response carries.
MaxList == 2
\* The last clock value (half days).
MaxNow == 2
\* The most scope creations of ensureScopeExists a process history counts.
MaxCreates == 2

\* process.env: "" stands for a variable that is unset or empty.
Environments ==
  [username : {"", "karaf"}, password : {"", "karaf"}, key : {"", "secret"},
   profileId : {"", "fallback-id"}, email : {"", "me@example.com"},
   sourceId : {"", "my-source"}]

\* Profile ids the remote service holds.
ProfileIds == {"fallback-id", "found-id"}

ToolNames ==
  {"create_scope", "update_my_profile", "get_my_profile", "get_profile",
   "search_profiles"}
RequestedNames == ToolNames \cup {"delete_profile"}

\* Values a caller may put in a field of the arguments.
FieldValues == {Null, Str("a"), Num(30), Bool(TRUE), Arr(<<>>)}
\* Values a caller may put under a key of `properties`.
PropertyValues ==
  {Null, Str("a"), Num(30), Bool(FALSE), Obj([nested |-> Str("a")]),
   Arr(<<Str("a")>>)}
PropertyMaps == {Obj(f) : f \in Maps({"age", "email"}, PropertyValues)}
PropertyLists == {Arr(<<>>), Arr(<<Str("a")>>), Arr(<<Arr(<<>>)>>)}

\* Candidates that are no key-value map at all.
NonMaps == {Undefined, Null, Str("a"), Num(30), Arr(<<>>), Arr(<<Str("a")>>)}

ArgumentCandidates(name) ==
  NonMaps \cup
  IF name = "create_scope"
    THEN {Obj(f) : f \in Maps({"scope", "name", "description"}, FieldValues)}
  ELSE IF name = "update_my_profile"
    THEN {Obj(f) : f \in Maps({"properties"},
                              FieldValues \cup PropertyMaps \cup PropertyLists)}
  ELSE IF name = "get_my_profile"
    THEN {Obj(f) : f \in Maps({"requireSegments", "requireScores"}, FieldValues)}
  ELSE IF name = "get_profile"
    THEN {Obj(f) : f \in Maps({"profileId"}, FieldValues)}
  ELSE IF name = "search_profiles"
    THEN {Obj(f) : f \in Maps({"query", "limit", "offset"}, FieldValues)}
  ELSE {Obj(NoFields)}

RequestedUris == {"unomi://profiles/list", "unomi://profiles/other"}

\* Outcomes of one HTTP call: a transport failure (an axios error, with or
\* without a response carrying a message), or a response.
Failures ==
  {[ok |-> FALSE, response |-> Undefined, message |-> "Network Error"],
   [ok |-> FALSE,
    response |-> Obj([data |-> Obj([message |-> Str("Server Error")])]),
    message |-> "Request failed with status code 500"]}

Response(status, data) == [ok |-> TRUE, status |-> status, data |-> data]

Profile(id) == Obj([itemId |-> Str(id)])

ProfileLists ==
  UNION {[1..n -> {Profile(id) : id \in ProfileIds}] : n \in 0..MaxList}

StoredScope ==
  Obj([itemId |-> Str("claude-desktop"), itemType |-> Str("scope")])

ScopeGetOutcomes ==
  Failures \cup {Response(204, Str(""))}
    \cup {Response(200, d) : d \in {Str(""), Obj(NoFields), StoredScope}}

ScopePostOutcomes == Failures \cup {Response(200, Str(""))}

SearchOutcomes ==
  Failures \cup {Response(200, Str("")), Response(200, Obj(NoFields))}
    \cup {Response(200, Obj([list |-> Arr(l)])) : l \in ProfileLists}

ContextOutcomes ==
  Failures \cup
  {Response(200, d) : d \in
     {Str(""), Obj(NoFields),
      Obj([profileProperties |-> Obj([email |-> Str("me@example.com")]),
           sessionProperties |-> Obj(NoFields),
           profileSegments |-> Arr(<<Str("leads")>>),
           profileScores |-> Obj([score |-> Num(30)])])}}

\* The body of the response to a context write is never read.
ContextWriteOutcomes == Failures \cup {Response(200, Obj(NoFields))}

ProfileGetOutcomes ==
  Failures \cup {Response(200, Profile(id)) : id \in ProfileIds}
    \cup {Response(204, Str(""))}

(***************************************************************************)
(* State.                                                                  *)
(***************************************************************************)
VARIABLES
  env,                \* process.env, read once at module load
  pc,                 \* where the process is
  handlers,           \* request schemas a handler is registered for
  connected,          \* the stdio transport is connected
  now,                \* the clock
  req,                \* the request being handled
  calls,              \* remote calls issued while handling req, in order
  valid,              \* outcome of the argument validator for req
  existingProfileId,  \* getEffectiveProfileId: result of findProfileByEmail
  profileId,          \* handleMyProfileOperation: the resolved profile id
  result,             \* what the handler returned or raised
  history             \* what earlier requests of this process left at the remote

vars ==
  <<env, pc, handlers, connected, now, req, calls, valid, existingProfileId,
    profileId, result, history>>

NoRequest == [method |-> "none"]
\* Nothing has been sent to the remote yet: no Context Request, no scope
\* created, no scope lost by the remote, no scope created by ensureScopeExists.
NoHistory == [sessions |-> {}, stored |-> FALSE, forgot |-> FALSE, ensured |-> 0]
NoResult == [kind |-> "none"]

\* throw new McpError(code, ...), or a raw error escaping the handler
Fault(code) == [kind |-> "fault", code |-> code]
\* return { content: [{ type: "text", text }] }
Content(text) == [kind |-> "content", isError |-> FALSE, text |-> text]
\* return { content: [{ type: "text", text: `Unomi API error: ...` }], isError: true }
ErrorContent(message) ==
  [kind |-> "content", isError |-> TRUE,
   text |-> Str("Unomi API error: " \o message)]
\* return { contents: [{ uri, mimeType, text }] }
Contents(uri, text) == [kind |-> "contents", uri |-> uri, text |-> text]

\* error.response?.data?.message ?? error.message
ErrorMessage(error) ==
  IF error.response = Undefined THEN error.message
  ELSE IF Prop(error.response, "data") \in {Undefined, Null} THEN error.message
  ELSE IF Prop(Prop(error.response, "data"), "message") \in {Undefined, Null}
    THEN error.message
  ELSE Prop(Prop(error.response, "data"), "message").s

\* One call of the axios instance: method, url and the JSON body sent, with
\* the outcome the remote service gave it.
Call(method, url, data, outcome) ==
  [method |-> method, url |-> url, data |-> Json(data), ok |-> outcome.ok,
   outcome |-> outcome]

\* A Context Request: its session id is bound to the date, so the log keeps
\* the instant it was sent at.
ContextCall(data, outcome) ==
  [method |-> "POST", url |-> "/context.json", data |-> Json(data),
   ok |-> outcome.ok, outcome |-> outcome, at |-> now]

(***************************************************************************)
(* Module level: configuration (lines 43-61) and construction (706-707).   *)
(***************************************************************************)
UNOMI_SOURCE_ID == IF env.sourceId # "" THEN env.sourceId ELSE "claude-desktop"
UNOMI_PROFILE_ID == env.profileId
UNOMI_EMAIL == env.email

defaultScope == "claude-desktop"

\* The three checks of required configuration.
\* Start-up checks that do not look at the key.
ConfigurationWithoutKey ==
  /\ ~(env.username = "" \/ env.password = "")
  /\ ~(env.profileId = "")

ConfigurationComplete ==
  /\ ~(env.username = "" \/ env.password = "")
  /\ ~(env.key = "")
  /\ ~(env.profileId = "")

\* Module load: the checks throw, or the server is constructed and its
\* handlers registered.
LoadModule ==
  /\ pc = "load"
  /\ IF ConfigurationComplete
       THEN /\ handlers' = {"ListResources", "ReadResource", "ListTools", "CallTool"}
            /\ pc' = "constructed"
       ELSE /\ handlers' = handlers
            /\ pc' = "aborted"
  /\ UNCHANGED <<env, history, connected, now, req, calls, valid, existingProfileId,
                 profileId, result>>

\* run(): connect the stdio transport.
Run ==
  /\ pc = "constructed"
  /\ connected' = TRUE
  /\ pc' = "idle"
  /\ UNCHANGED <<env, history, handlers, now, req, calls, valid, existingProfileId,
                 profileId, result>>

\* Time passes.  The clock is read by generateSessionId alone, so it is
\* advanced between requests and right before each of its reads; advancing
\* it at any other point of a request reads the same.
Tick ==
  /\ pc \in {"idle", "email_write", "primary"}
  /\ now < MaxNow
  /\ now' = now + 1
  /\ UNCHANGED <<env, history, pc, handlers, connected, req, calls, valid,
                 existingProfileId, profileId, result>>

(***************************************************************************)
(* The CallTool handler (lines 397-696).                                   *)
(***************************************************************************)
\* Mutant: get_my_profile does not ensure the scope first.
FirstStepWithoutEnsure(name) ==
  IF name = "create_scope" THEN "validate"
  ELSE IF name = "update_my_profile" THEN "ensure_get"
  ELSE IF name = "get_my_profile" THEN "validate"
  ELSE IF name = "get_profile" THEN "validate"
  ELSE IF name = "search_profiles" THEN "validate"
  ELSE "default"

\* Mutant: the switch has no default case and falls into the last one.
FirstStepWithoutDefault(name) ==
  IF name = "create_scope" THEN "validate"
  ELSE IF name = "update_my_profile" THEN "ensure_get"
  ELSE IF name = "get_my_profile" THEN "ensure_get"
  ELSE "validate"

\* A switch in which every profile tool ensures the scope first.
FirstStepEnsuringEveryTool(name) ==
  IF name = "create_scope" THEN "validate"
  ELSE IF name \in {"update_my_profile", "get_my_profile", "get_profile",
                    "search_profiles"} THEN "ensure_get"
  ELSE "default"

\* The switch on request.params.name: the first thing each case does.
FirstStep(name) ==
  IF name = "create_scope" THEN "validate"
  ELSE IF name = "update_my_profile" THEN "ensure_get"
  ELSE IF name = "get_my_profile" THEN "ensure_get"
  ELSE IF name = "get_profile" THEN "validate"
  ELSE IF name = "search_profiles" THEN "validate"
  ELSE "default"

\* A tools/call request arrives and the switch is entered; the default
\* case throws MethodNotFound.
CallTool(name, arguments) ==
  /\ pc = "idle"
  /\ connected
  /\ "CallTool" \in handlers
  /\ req' = [method |-> "tools/call", name |-> name, arguments |-> arguments]
  /\ calls' = <<>>
  /\ valid' = "none"
  /\ existingProfileId' = Undefined
  /\ profileId' = ""
  /\ IF FirstStep(name) = "default"
       THEN /\ result' = Fault("MethodNotFound")
            /\ pc' = "done"
       ELSE /\ result' = NoResult
            /\ pc' = FirstStep(name)
  /\ UNCHANGED <<env, history, handlers, connected, now>>

(***************************************************************************)
(* ensureScopeExists (lines 178-210).                                      *)
(***************************************************************************)
\* Mutant: only the 204 status counts as an absent scope.
ScopeAbsentByStatusOnly(response) == response.status = 204

\* An existence check that takes every scope for absent.
ScopeAlwaysAbsent(response) == TRUE

\* response.status === 204 || !response.data ||
\* Object.keys(response.data).length === 0
ScopeAbsent(response) ==
  \/ response.status = 204
  \/ ~Truthy(response.data)
  \/ KeyCount(response.data) = 0

\* The scope record ensureScopeExists creates.
EnsuredScopeData(scope) ==
  Obj([itemId |-> Str(scope),
       itemType |-> Str("scope"),
       metadata |-> Obj([id |-> Str(scope),
                         name |-> Str("Claude Desktop Scope - " \o scope),
                         description |-> Str("Automatically created scope for Claude Desktop MCP Server"),
                         scope |-> Str(scope)])])

\* GET /cxs/scopes/{scope}: on a transport failure McpError(InternalError);
\* on an absent scope go on to create it; otherwise the scope exists.
EnsureScopeGet(outcome) ==
  /\ pc = "ensure_get"
  /\ calls' = Append(calls, Call("GET", "/cxs/scopes/" \o defaultScope, Undefined, outcome))
  /\ IF ~outcome.ok
       THEN /\ result' = Fault("InternalError")
            /\ pc' = "done"
       ELSE /\ result' = result
            /\ pc' = IF ScopeAbsent(outcome) THEN "ensure_post" ELSE "validate"
  /\ UNCHANGED <<env, history, handlers, connected, now, req, valid, existingProfileId,
                 profileId>>

\* A scope creation whose failure is ignored.
EnsureScopePostSwallowing(outcome) ==
  /\ pc = "ensure_post"
  /\ calls' = Append(calls, Call("POST", "/cxs/scopes", EnsuredScopeData(defaultScope), outcome))
  /\ result' = result
  /\ pc' = "validate"
  /\ UNCHANGED <<env, history, handlers, connected, now, req, valid, existingProfileId,
                 profileId>>

\* POST /cxs/scopes with the generated record.
EnsureScopePost(outcome) ==
  /\ pc = "ensure_post"
  /\ calls' = Append(calls, Call("POST", "/cxs/scopes", EnsuredScopeData(defaultScope), outcome))
  /\ IF ~outcome.ok
       THEN /\ result' = Fault("InternalError")
            /\ pc' = "done"
       ELSE /\ result' = result
            /\ pc' = "validate"
  /\ UNCHANGED <<env, history, handlers, connected, now, req, valid, existingProfileId,
                 profileId>>

(***************************************************************************)
(* Argument validation in each case of the switch.                         *)
(***************************************************************************)
\* The validator each case applies to request.params.arguments.
Validate(name, arguments) ==
  IF name = "create_scope" THEN isValidCreateScopeArgs(arguments)
  ELSE IF name = "update_my_profile" THEN isValidUpdateMyProfileArgs(arguments)
  ELSE IF name = "get_my_profile" THEN isValidGetMyProfileArgs(arguments)
  ELSE IF name = "get_profile" THEN isValidGetProfileArgs(arguments)
  ELSE isValidSearchProfilesArgs(arguments)

\* What follows a successful validation.
StepAfterValidation(name) ==
  IF name \in {"update_my_profile", "get_my_profile"} THEN "resolve" ELSE "primary"

\* if (!isValid...Args(arguments)) throw new McpError(InvalidParams, ...)
CheckArguments ==
  /\ pc = "validate"
  /\ valid' = Validate(req.name, req.arguments)
  /\ IF valid' = T
       THEN /\ result' = result
            /\ pc' = StepAfterValidation(req.name)
       ELSE /\ result' = IF valid' = F THEN Fault("InvalidParams") ELSE Fault("TypeError")
            /\ pc' = "done"
  /\ UNCHANGED <<env, history, handlers, connected, now, req, calls, existingProfileId,
                 profileId>>

(***************************************************************************)
(* Profile resolver: findProfileByEmail (212-238) and                      *)
(* getEffectiveProfileId (240-286).                                        *)
(***************************************************************************)
\* The search findProfileByEmail posts.
EmailLookupQuery(email) ==
  Obj([condition |->
         Obj([type |-> Str("profilePropertyCondition"),
              parameterValues |->
                Obj([propertyName |-> Str("properties.email"),
                     comparisonOperator |-> Str("equals"),
                     propertyValue |-> Str(email)])]),
       limit |-> Num(1)])

\* Mutant: the last profile of the list is taken, not the first.
FoundLastProfileId(outcome) ==
  IF ~outcome.ok THEN Null
  ELSE IF /\ Truthy(outcome.data)
          /\ Truthy(Prop(outcome.data, "list"))
          /\ KeyCount(Prop(outcome.data, "list")) > 0
    THEN Prop(Prop(outcome.data, "list").e[KeyCount(Prop(outcome.data, "list"))],
              "itemId")
  ELSE Null

\* What findProfileByEmail returns for an outcome of its search: the itemId
\* of the first profile of the list, null when there is none, and null when
\* the search failed.
FoundProfileId(outcome) ==
  IF ~outcome.ok THEN Null
  ELSE IF /\ Truthy(outcome.data)
          /\ Truthy(Prop(outcome.data, "list"))
          /\ KeyCount(Prop(outcome.data, "list")) > 0
    THEN Prop(Prop(outcome.data, "list").e[1], "itemId")
  ELSE Null

\* The context request of the best-effort email write.
EmailWriteContext(id, sessionId) ==
  Obj([sessionId |-> Str(sessionId),
       profileId |-> Str(id),
       source |-> Obj([itemId |-> Str(UNOMI_SOURCE_ID),
                       itemType |-> Str("claude"),
                       scope |-> Str("claude-desktop")]),
       events |-> Arr(<<
         Obj([eventType |-> Str("updateProperties"),
              scope |-> Str("claude-desktop"),
              source |-> Obj([itemId |-> Str(UNOMI_SOURCE_ID),
                              itemType |-> Str("claude"),
                              scope |-> Str("claude-desktop")]),
              target |-> Obj([itemId |-> Str(id),
                              itemType |-> Str("profile"),
                              scope |-> Str("claude-desktop")]),
              properties |-> Obj([update |->
                Obj([k \in {"properties.email"} |-> Str(UNOMI_EMAIL)])])])>>)])

\* Mutant: the lookup is made whether or not an email is configured.
EmailAlwaysLookedUp == TRUE

\* getEffectiveProfileId entered: with an email configured look it up,
\* otherwise return UNOMI_PROFILE_ID.
EmailConfigured == Truthy(Str(UNOMI_EMAIL))

GetEffectiveProfileId ==
  /\ pc = "resolve"
  /\ IF EmailConfigured
       THEN /\ pc' = "lookup"
            /\ profileId' = profileId
       ELSE /\ pc' = "primary"
            /\ profileId' = UNOMI_PROFILE_ID
  /\ UNCHANGED <<env, history, handlers, connected, now, req, calls, valid,
                 existingProfileId, result>>

\* What the resolver does with the looked-up id: return it, or fall back.
StepAfterLookup(found) == IF Truthy(found) THEN "primary" ELSE "email_write"

\* findProfileByEmail: POST /cxs/profiles/search; a failure is swallowed.
FindProfileByEmail(outcome) ==
  /\ pc = "lookup"
  /\ calls' = Append(calls, Call("POST", "/cxs/profiles/search", EmailLookupQuery(UNOMI_EMAIL), outcome))
  /\ existingProfileId' = FoundProfileId(outcome)
  /\ pc' = StepAfterLookup(existingProfileId')
  /\ profileId' = IF pc' = "primary" THEN existingProfileId'.s ELSE profileId
  /\ UNCHANGED <<env, history, handlers, connected, now, req, valid, result>>

\* Mutant: a failure of the email write is raised like a failure of scope
\* ensurance.
WriteEmailOrRaise(outcome) ==
  /\ pc = "email_write"
  /\ calls' = Append(calls,
       ContextCall(
            EmailWriteContext(UNOMI_PROFILE_ID, generateSessionId(UNOMI_PROFILE_ID, now)),
            outcome))
  /\ profileId' = UNOMI_PROFILE_ID
  /\ IF outcome.ok
       THEN /\ pc' = "primary"
            /\ result' = result
       ELSE /\ pc' = "done"
            /\ result' = Fault("InternalError")
  /\ UNCHANGED <<env, history, handlers, connected, now, req, valid, existingProfileId>>

\* No match: POST /context.json setting the email on the fallback profile;
\* a failure is swallowed and the fallback id returned either way.
WriteEmail(outcome) ==
  /\ pc = "email_write"
  /\ calls' = Append(calls,
       ContextCall(
            EmailWriteContext(UNOMI_PROFILE_ID, generateSessionId(UNOMI_PROFILE_ID, now)),
            outcome))
  /\ profileId' = UNOMI_PROFILE_ID
  /\ pc' = "primary"
  /\ UNCHANGED <<env, history, handlers, connected, now, req, valid, existingProfileId,
                 result>>

(***************************************************************************)
(* The primary action of each case of the switch.                          *)
(***************************************************************************)
\* Mutant: the transport failure of a primary call is raised, as the
\* resource handler does.
PrimaryFailureRaised(error) == Fault("InternalError")

\* The transport failure of a primary call, shaped as an error response.
PrimaryFailure(error) == ErrorContent(ErrorMessage(error))

\* create_scope: the record built from the arguments (lines 411-420).
\* A scope record filed under the default scope instead of its own.
CreateScopeDataInDefaultScope(arguments) ==
  Obj([itemId |-> Prop(arguments, "scope"),
       itemType |-> Str("scope"),
       metadata |-> Obj([id |-> Prop(arguments, "scope"),
                         name |-> Prop(arguments, "name"),
                         description |-> Prop(arguments, "description"),
                         scope |-> Str("claude-desktop")])])

CreateScopeData(arguments) ==
  Obj([itemId |-> Prop(arguments, "scope"),
       itemType |-> Str("scope"),
       metadata |-> Obj([id |-> Prop(arguments, "scope"),
                         name |-> Prop(arguments, "name"),
                         description |-> Prop(arguments, "description"),
                         scope |-> Prop(arguments, "scope")])])

CreateScope(outcome) ==
  /\ pc = "primary"
  /\ req.name = "create_scope"
  /\ calls' = Append(calls, Call("POST", "/cxs/scopes", CreateScopeData(req.arguments), outcome))
  /\ result' =
       IF outcome.ok
         THEN Content(Json(Obj([message |-> Str("Scope created successfully"),
                                scope |-> CreateScopeData(req.arguments)])))
         ELSE PrimaryFailure(outcome)
  /\ pc' = "done"
  /\ UNCHANGED <<env, history, handlers, connected, now, req, valid, existingProfileId,
                 profileId>>

\* The keys of Object.entries(v): member names, or the indices of an array.
EntryKeys(v) ==
  IF v.t = "object" THEN DOMAIN v.f
  ELSE IF v.t = "array" THEN {Digit(i - 1) : i \in 1..Len(v.e)}
  ELSE {}

\* The value Object.entries(v) pairs with key k.
EntryValue(v, k) ==
  IF v.t = "object" THEN v.f[k]
  ELSE v.e[CHOOSE i \in 1..Len(v.e) : Digit(i - 1) = k]

\* An update map that leaves out the properties whose value is null.
UpdateMapWithoutNulls(properties) ==
  Obj([p \in {"properties." \o k :
               k \in {e \in EntryKeys(properties) : EntryValue(properties, e) # Null}} |->
         EntryValue(properties,
                    CHOOSE k \in EntryKeys(properties) : "properties." \o k = p)])

\* Object.fromEntries(Object.entries(properties).map(([key, value]) =>
\*   [`properties.${key}`, value]))
UpdateMap(properties) ==
  Obj([p \in {"properties." \o k : k \in EntryKeys(properties)} |->
         EntryValue(properties,
                    CHOOSE k \in EntryKeys(properties) : "properties." \o k = p)])

\* update_my_profile: the context request (lines 461-490).
UpdateContext(id, sessionId, arguments) ==
  Obj([sessionId |-> Str(sessionId),
       profileId |-> Str(id),
       source |-> Obj([itemId |-> Str(UNOMI_SOURCE_ID),
                       itemType |-> Str("claude"),
                       scope |-> Str("claude-desktop")]),
       events |-> Arr(<<
         Obj([eventType |-> Str("updateProperties"),
              scope |-> Str("claude-desktop"),
              source |-> Obj([itemId |-> Str(UNOMI_SOURCE_ID),
                              itemType |-> Str("claude"),
                              scope |-> Str("claude-desktop")]),
              target |-> Obj([itemId |-> Str(id),
                              itemType |-> Str("profile"),
                              scope |-> Str("claude-desktop")]),
              properties |-> Obj([update |->
                UpdateMap(Prop(arguments, "properties"))])])>>)])

\* source: UNOMI_EMAIL ? "email_lookup" : "environment"
SourceTag == IF EmailConfigured THEN "email_lookup" ELSE "environment"

UpdateMyProfile(outcome) ==
  /\ pc = "primary"
  /\ req.name = "update_my_profile"
  /\ LET sessionId == generateSessionId(profileId, now) IN
       /\ calls' = Append(calls,
            ContextCall(
                 UpdateContext(profileId, sessionId, req.arguments), outcome))
       /\ result' =
            IF outcome.ok
              THEN Content(Json(Obj(
                     [message |-> Str("Profile properties updated successfully"),
                      updatedProperties |-> Prop(req.arguments, "properties"),
                      profileId |-> Str(profileId),
                      sessionId |-> Str(sessionId),
                      source |-> Str(SourceTag)])))
              ELSE PrimaryFailure(outcome)
  /\ pc' = "done"
  /\ UNCHANGED <<env, history, handlers, connected, now, req, valid, existingProfileId,
                 profileId>>

\* get_my_profile: the context request (lines 538-550).
ReadContext(id, sessionId, arguments) ==
  Obj([sessionId |-> Str(sessionId),
       profileId |-> Str(id),
       source |-> Obj([itemId |-> Str(UNOMI_SOURCE_ID),
                       itemType |-> Str("claude"),
                       scope |-> Str("claude-desktop")]),
       requiredProfileProperties |-> Arr(<<Str("*")>>),
       requiredSessionProperties |-> Arr(<<Str("*")>>),
       requireSegments |-> Prop(arguments, "requireSegments"),
       requireScores |-> Prop(arguments, "requireScores")])

GetMyProfile(outcome) ==
  /\ pc = "primary"
  /\ req.name = "get_my_profile"
  /\ LET sessionId == generateSessionId(profileId, now) IN
       /\ calls' = Append(calls,
            ContextCall(
                 ReadContext(profileId, sessionId, req.arguments), outcome))
       /\ result' =
            IF ~outcome.ok THEN PrimaryFailure(outcome)
            ELSE IF Prop(outcome.data, "profileProperties") = Thrown
              THEN Fault("TypeError")
            ELSE Content(Json(Obj(
                   [profile |-> Prop(outcome.data, "profileProperties"),
                    session |-> Prop(outcome.data, "sessionProperties"),
                    segments |-> Prop(outcome.data, "profileSegments"),
                    scores |-> Prop(outcome.data, "profileScores"),
                    sessionId |-> Str(sessionId),
                    profileId |-> Str(profileId),
                    source |-> Str(SourceTag)])))
  /\ pc' = "done"
  /\ UNCHANGED <<env, history, handlers, connected, now, req, valid, existingProfileId,
                 profileId>>

\* get_profile: GET /cxs/profiles/{profileId}, the response echoed.
GetProfile(outcome) ==
  /\ pc = "primary"
  /\ req.name = "get_profile"
  /\ calls' = Append(calls,
       Call("GET", "/cxs/profiles/" \o Prop(req.arguments, "profileId").s,
            Undefined, outcome))
  /\ result' = IF outcome.ok THEN Content(Json(outcome.data))
               ELSE PrimaryFailure(outcome)
  /\ pc' = "done"
  /\ UNCHANGED <<env, history, handlers, connected, now, req, valid, existingProfileId,
                 profileId>>

\* A paging value that is fixed, whatever the caller gave.
DefaultAlways(v, d) == d

\* const { query, limit = 10, offset = 0 } = arguments
Default(v, d) == IF v = Undefined THEN d ELSE v

SubCondition(propertyName, query) ==
  Obj([type |-> Str("profilePropertyCondition"),
       parameterValues |-> Obj([propertyName |-> Str(propertyName),
                                comparisonOperator |-> Str("contains"),
                                propertyValue |-> query])])

\* search_profiles: the search posted (lines 631-666).
SearchQuery(arguments) ==
  Obj([offset |-> Default(Prop(arguments, "offset"), Num(0)),
       limit |-> Default(Prop(arguments, "limit"), Num(10)),
       condition |->
         Obj([type |-> Str("booleanCondition"),
              parameterValues |->
                Obj([operator |-> Str("or"),
                     subConditions |-> Arr(<<
                       SubCondition("properties.firstName", Prop(arguments, "query")),
                       SubCondition("properties.lastName", Prop(arguments, "query")),
                       SubCondition("properties.email", Prop(arguments, "query"))>>)])])])

SearchProfiles(outcome) ==
  /\ pc = "primary"
  /\ req.name = "search_profiles"
  /\ calls' = Append(calls, Call("POST", "/cxs/profiles/search", SearchQuery(req.arguments), outcome))
  /\ result' = IF outcome.ok THEN Content(Json(outcome.data))
               ELSE PrimaryFailure(outcome)
  /\ pc' = "done"
  /\ UNCHANGED <<env, history, handlers, connected, now, req, valid, existingProfileId,
                 profileId>>

(***************************************************************************)
(* The ReadResource handler (lines 135-175).                               *)
(***************************************************************************)
ListQuery ==
  Obj([offset |-> Num(0), limit |-> Num(10),
       condition |-> Obj([type |-> Str("matchAllCondition")])])

ReadResource(uri) ==
  /\ pc = "idle"
  /\ connected
  /\ "ReadResource" \in handlers
  /\ req' = [method |-> "resources/read", uri |-> uri]
  /\ calls' = <<>>
  /\ valid' = "none"
  /\ existingProfileId' = Undefined
  /\ profileId' = ""
  /\ IF uri # "unomi://profiles/list"
       THEN /\ result' = Fault("InvalidRequest")
            /\ pc' = "done"
       ELSE /\ result' = NoResult
            /\ pc' = "list"
  /\ UNCHANGED <<env, history, handlers, connected, now>>

\* A list read that reports a transport failure as content.
ListProfilesFailureAsContent(outcome) ==
  /\ pc = "list"
  /\ calls' = Append(calls, Call("POST", "/cxs/profiles/search", ListQuery, outcome))
  /\ result' = IF outcome.ok THEN Contents(req.uri, Json(outcome.data))
               ELSE Contents(req.uri, Str(ErrorMessage(outcome)))
  /\ pc' = "done"
  /\ UNCHANGED <<env, history, handlers, connected, now, req, valid, existingProfileId,
                 profileId>>

ListProfiles(outcome) ==
  /\ pc = "list"
  /\ calls' = Append(calls, Call("POST", "/cxs/profiles/search", ListQuery, outcome))
  /\ result' = IF outcome.ok THEN Contents(req.uri, Json(outcome.data))
               ELSE Fault("InternalError")
  /\ pc' = "done"
  /\ UNCHANGED <<env, history, handlers, connected, now, req, valid, existingProfileId,
                 profileId>>

\* The handler's promise settles and its locals are gone; the host may send
\* the next request.
Return ==
  /\ pc = "done"
  /\ pc' = "idle"
  /\ req' = NoRequest
  /\ calls' = <<>>
  /\ valid' = "none"
  /\ existingProfileId' = Undefined
  /\ profileId' = ""
  /\ result' = NoResult
  /\ UNCHANGED <<env, history, handlers, connected, now>>

(***************************************************************************)
(* Specification.                                                          *)
(***************************************************************************)
Init ==
  /\ env \in Environments
  /\ pc = "load"
  /\ handlers = {}
  /\ connected = FALSE
  /\ now = 0
  /\ req = NoRequest
  /\ calls = <<>>
  /\ valid = "none"
  /\ existingProfileId = Undefined
  /\ profileId = ""
  /\ result = NoResult
  /\ history = NoHistory

Next ==
  \/ LoadModule
  \/ Run
  \/ Tick
  \/ \E name \in RequestedNames : \E arguments \in ArgumentCandidates(name) :
       CallTool(name, arguments)
  \/ \E outcome \in ScopeGetOutcomes : EnsureScopeGet(outcome)
  \/ \E outcome \in ScopePostOutcomes : EnsureScopePost(outcome)
  \/ CheckArguments
  \/ GetEffectiveProfileId
  \/ \E outcome \in SearchOutcomes : FindProfileByEmail(outcome)
  \/ \E outcome \in ContextWriteOutcomes : WriteEmail(outcome)
  \/ \E outcome \in ScopePostOutcomes : CreateScope(outcome)
  \/ \E outcome \in ContextWriteOutcomes : UpdateMyProfile(outcome)
  \/ \E outcome \in ContextOutcomes : GetMyProfile(outcome)
  \/ \E outcome \in ProfileGetOutcomes : GetProfile(outcome)
  \/ \E outcome \in SearchOutcomes : SearchProfiles(outcome)
  \/ \E uri \in RequestedUris : ReadResource(uri)
  \/ \E outcome \in SearchOutcomes : ListProfiles(outcome)
  \/ Return

Spec == Init /\ [][Next]_vars

(***************************************************************************)
(* Properties.                                                             *)
(***************************************************************************)
MyProfileTools == {"update_my_profile", "get_my_profile"}

ToolCall == req.method = "tools/call"
ToolCallDone == pc = "done" /\ ToolCall

IsScopeRead(c) == c.method = "GET" /\ c.url = "/cxs/scopes/claude-desktop"
IsScopeCreate(c) == c.method = "POST" /\ c.url = "/cxs/scopes"
IsSearch(c) == c.method = "POST" /\ c.url = "/cxs/profiles/search"
IsContext(c) == c.method = "POST" /\ c.url = "/context.json"

ScopeReads == {i \in 1..Len(calls) : IsScopeRead(calls[i])}
ScopeCreates == {i \in 1..Len(calls) : IsScopeCreate(calls[i])}
Searches == {i \in 1..Len(calls) : IsSearch(calls[i])}
ContextRequests == {i \in 1..Len(calls) : IsContext(calls[i])}

\* A my-profile call whose arguments passed validation and whose resolver
\* has returned.
Resolved ==
  /\ ToolCall
  /\ req.name \in MyProfileTools
  /\ pc \in {"primary", "done"}
  /\ valid = T

\* The position of the email lookup among the calls of a resolved request.
Lookup == CHOOSE i \in Searches : TRUE

\* The remote service's answer to a lookup: some profile, or none.
LookupMatched(c) ==
  /\ c.ok
  /\ c.outcome.data.t = "object"
  /\ "list" \in DOMAIN c.outcome.data.f
  /\ Len(c.outcome.data.f["list"].e) > 0
FirstMatch(c) == c.outcome.data.f["list"].e[1].f["itemId"].s

\* A context request with a single updateProperties event that sets
\* properties.email, and nothing else, on profile id.
IsEmailWrite(c, id) ==
  /\ IsContext(c)
  /\ c.data.f["profileId"] = Str(id)
  /\ Len(c.data.f["events"].e) = 1
  /\ c.data.f["events"].e[1].f["eventType"] = Str("updateProperties")
  /\ c.data.f["events"].e[1].f["target"].f["itemId"] = Str(id)
  /\ c.data.f["events"].e[1].f["properties"].f["update"]
       = Obj([k \in {"properties.email"} |-> Str(env.email)])

\* C1: for each of the five tools, a call whose arguments fail the tool's
\* validator ends in an invalid-parameters fault, and no remote call has
\* been issued during it.
C1_InvalidArgumentsReachNoRemote ==
  (ToolCallDone /\ req.name \in ToolNames
     /\ Validate(req.name, req.arguments) # T)
    => (result = Fault("InvalidParams") /\ calls = <<>>)

\* C2: in the success payload of get_my_profile and update_my_profile,
\* source is "email_lookup" exactly when the returned profile id came from a
\* matching lookup, and "environment" exactly when it is the fallback id,
\* the case of a configured email without a match included.
C2_SourceNamesResolutionPath ==
  (ToolCallDone /\ req.name \in MyProfileTools
     /\ result.kind = "content" /\ ~result.isError)
    => LET source == result.text.f["source"].s
           returned == result.text.f["profileId"].s
           matched == Searches # {} /\ LookupMatched(calls[Lookup])
       IN /\ source = "email_lookup"
               <=> (matched /\ returned = FirstMatch(calls[Lookup]))
          /\ source = "environment"
               <=> (~matched /\ returned = env.profileId)

C4_NoMatchFallsBackWithOneSilentWrite ==
  (Resolved /\ env.email # "" /\ Searches # {}
     /\ ~LookupMatched(calls[Lookup]))
    => /\ profileId = env.profileId
       /\ Len(calls) > Lookup
       /\ IsEmailWrite(calls[Lookup + 1], env.profileId)
       /\ pc = "primary" => ContextRequests = {Lookup + 1}
       /\ pc = "done"
            => /\ ContextRequests = {Lookup + 1, Lookup + 2}
               /\ result =
                    IF calls[Lookup + 2].ok
                      THEN Content(result.text)
                      ELSE ErrorContent(ErrorMessage(calls[Lookup + 2].outcome))

\* C4 witness: the lookup failed, the email write failed, and the call
\* returned a success payload for the fallback id.
C4_Witness ==
  /\ Resolved
  /\ pc = "done"
  /\ env.email # ""
  /\ Searches # {}
  /\ ~calls[Lookup].ok
  /\ ~calls[Lookup + 1].ok
  /\ result.kind = "content"
  /\ ~result.isError
  /\ result.text.f["profileId"] = Str(env.profileId)

\* C5: with an email configured and a lookup returning at least one
\* profile, the resolver returns the id of the first returned profile,
\* whatever it is, and issues no remote write.
C5_MatchReturnsFirstIdWithoutWrite ==
  (Resolved /\ env.email # "" /\ Searches # {}
     /\ LookupMatched(calls[Lookup]))
    => /\ profileId = FirstMatch(calls[Lookup])
       /\ pc = "primary" => (Len(calls) = Lookup /\ ContextRequests = {})
       /\ pc = "done"
            => /\ Len(calls) = Lookup + 1
               /\ ContextRequests = {Lookup + 1}
               /\ calls[Lookup + 1].data.f["profileId"]
                    = Str(FirstMatch(calls[Lookup]))

\* C5 witness: the resolver returned an id that differs from the fallback id
\* and from the second profile of the list.
C5_Witness ==
  /\ Resolved
  /\ pc = "primary"
  /\ Searches # {}
  /\ LookupMatched(calls[Lookup])
  /\ Len(calls[Lookup].outcome.data.f["list"].e) = 2
  /\ calls[Lookup].outcome.data.f["list"].e[2].f["itemId"] = Str(env.profileId)
  /\ profileId = "found-id"
  /\ profileId # env.profileId

\* C6: with no email configured, the resolver returns the fallback id and
\* issues no remote call: neither the lookup search nor the email write.
C6_NoEmailNoResolverCall ==
  (Resolved /\ env.email = "")
    => /\ profileId = env.profileId
       /\ Searches = {}
       /\ ContextRequests = IF pc = "primary" THEN {} ELSE {Len(calls)}
       /\ \A i \in 1..Len(calls) :
            i \in ScopeReads \cup ScopeCreates \cup ContextRequests

\* C6 witness: the resolver has returned the fallback id with no email set.
C6_Witness ==
  /\ Resolved
  /\ pc = "primary"
  /\ env.email = ""
  /\ profileId = env.profileId
  /\ Len(calls) = 1

\* The existence read answered with status 204, or with an empty or keyless
\* body.
ReadFoundNothing(c) ==
  /\ c.ok
  /\ \/ c.outcome.status = 204
     \/ c.outcome.data = Str("")
     \/ c.outcome.data = Obj(NoFields)

\* C7: one run of ensureScopeExists issues exactly one existence read, then
\* exactly one create if the read returned status 204 or an empty or keyless
\* body, and no create otherwise (a non-empty body, or a failed read).
C7_OneReadAndCreateOnlyIfAbsent ==
  (ToolCall /\ req.name \in MyProfileTools
     /\ pc \notin {"ensure_get", "ensure_post"})
    => /\ ScopeReads = {1}
       /\ ScopeCreates = IF ReadFoundNothing(calls[1]) THEN {2} ELSE {}
       /\ ScopeCreates # {}
            => calls[2].data = Json(EnsuredScopeData("claude-desktop"))

\* C7 witness: the read returned 200 with a keyless body and one create
\* followed.
C7_Witness ==
  /\ ToolCall
  /\ req.name \in MyProfileTools
  /\ pc = "validate"
  /\ calls[1].ok
  /\ calls[1].outcome.status = 200
  /\ calls[1].outcome.data = Obj(NoFields)
  /\ ScopeCreates = {2}

\* The call showed the default scope to exist: a read that returned a
\* non-empty body, or a create of it that succeeded.
ShowsDefaultScope(c) ==
  \/ /\ IsScopeRead(c)
     /\ c.ok
     /\ c.outcome.status # 204
     /\ c.outcome.data.t = "object"
     /\ DOMAIN c.outcome.data.f # {}
  \/ /\ IsScopeCreate(c)
     /\ c.ok
     /\ c.data.f["itemId"] = Str("claude-desktop")

\* Every scope a context request names is the default scope.
NamesDefaultScopeOnly(data) ==
  /\ data.f["source"].f["scope"] = Str("claude-desktop")
  /\ "events" \in DOMAIN data.f
       => \A n \in 1..Len(data.f["events"].e) :
            LET event == data.f["events"].e[n] IN
              /\ event.f["scope"] = Str("claude-desktop")
              /\ event.f["source"].f["scope"] = Str("claude-desktop")
              /\ event.f["target"].f["scope"] = Str("claude-desktop")

\* C8: whenever a context request is sent (the primary request of
\* update_my_profile or get_my_profile, or the resolver's email write), the
\* scope in its source and in every event's scope, source and target is the
\* default scope, and earlier in the same tool call that scope was read back
\* as existing or created by a create call that succeeded.
C8_ContextRequestsUseEnsuredScope ==
  \A i \in ContextRequests :
    /\ NamesDefaultScopeOnly(calls[i].data)
    /\ \E j \in 1..(i - 1) : ShowsDefaultScope(calls[j])

\* C8 witness: a get_my_profile call created the scope and then sent the
\* email write and its primary context request.
C8_Witness ==
  /\ ToolCallDone
  /\ req.name = "get_my_profile"
  /\ ScopeCreates = {2}
  /\ ContextRequests = {4, 5}

\* C9: a call whose name is none of the five tools raises a method-not-found
\* fault and issues no remote call.
C9_UnknownToolIsMethodNotFound ==
  (ToolCall /\ req.name \notin ToolNames)
    => (pc = "done" /\ result = Fault("MethodNotFound") /\ calls = <<>>)

\* C9 witness: delete_profile was called.
C9_Witness ==
  /\ ToolCallDone
  /\ req.name = "delete_profile"
  /\ result.kind = "fault"

\* The declared shapes of the arguments (the table of validated shapes).
IsMap(v) == v.t = "object"
Required(v, k, type) == k \in DOMAIN v.f /\ v.f[k].t = type
Optional(v, k, type) == k \in DOMAIN v.f => v.f[k].t = type

MatchesDeclaredShape(name, v) ==
  /\ IsMap(v)
  /\ name = "get_profile" => Required(v, "profileId", "string")
  /\ name = "search_profiles"
       => /\ Required(v, "query", "string")
          /\ Optional(v, "limit", "number")
          /\ Optional(v, "offset", "number")
  /\ name = "get_my_profile"
       => /\ Optional(v, "requireSegments", "boolean")
          /\ Optional(v, "requireScores", "boolean")
  /\ name = "update_my_profile"
       => /\ "properties" \in DOMAIN v.f
          /\ IsMap(v.f["properties"])
          /\ \A k \in DOMAIN v.f["properties"].f :
               v.f["properties"].f[k].t \in {"string", "number", "boolean", "null"}
  /\ name = "create_scope"
       => /\ Required(v, "scope", "string")
          /\ Optional(v, "name", "string")
          /\ Optional(v, "description", "string")

\* C10: every validator returns false, and never raises, for a candidate
\* that does not match its tool's declared shape, a candidate or a
\* `properties` field that is a list instead of a map and a property value
\* that is a nested map or list included.
C10_ValidatorsRejectEveryMismatch ==
  (ToolCall /\ valid # "none")
    => /\ valid # E
       /\ ~MatchesDeclaredShape(req.name, req.arguments) => valid = F

\* C11: for each of the five tools and every argument object, the validator
\* returns true when each required field is present with its declared type
\* and each optional field is absent or of its declared type, and false when
\* a required field is missing or of another type or a present optional
\* field is of another type, null included.
C11_ValidatorsDecideByDeclaredTypes ==
  (ToolCall /\ valid # "none" /\ req.name \in ToolNames /\ IsMap(req.arguments))
    => (valid = T <=> MatchesDeclaredShape(req.name, req.arguments))

\* The UTC calendar day of clock value n, written YYYYMMDD.
DayStamp(n) ==
  CASE n \div 2 = 0 -> "20241231"
    [] n \div 2 = 1 -> "20250101"
    [] n \div 2 = 2 -> "20250102"

MyProfileSucceeded ==
  /\ ToolCallDone
  /\ req.name \in MyProfileTools
  /\ result.kind = "content"
  /\ ~result.isError

\* C12: the session id generated for profile id p is p, a hyphen and the
\* eight digits YYYYMMDD of the current UTC date; for one p it is the same
\* string at any two instants of one UTC day and a different string at
\* instants of different UTC days.
C12_SessionIdIsProfileIdAndUtcDay ==
  MyProfileSucceeded
    => /\ result.text.f["sessionId"] = Str(profileId \o "-" \o DayStamp(now))
       /\ \A n \in 0..MaxNow :
            (n \div 2 = now \div 2)
              <=> (Str(generateSessionId(profileId, n)) = result.text.f["sessionId"])

\* A session id has been generated on the second day, after midday.
C12_Witness ==
  /\ MyProfileSucceeded
  /\ now = 2
  /\ result.text.f["sessionId"] = Str("fallback-id-20250101")

\* An update_my_profile call whose arguments passed validation, with a map
\* of properties, and whose primary Context Request has been sent.
UpdateSent ==
  /\ ToolCallDone
  /\ req.name = "update_my_profile"
  /\ valid = T
  /\ IsMap(req.arguments.f["properties"])

PrimaryCall == calls[Len(calls)]

\* C14: the Context Request of a valid update_my_profile call carries
\* exactly one event, of type updateProperties, targeting the resolved
\* profile id, and its update map has, for every input property key k,
\* the key "properties.k" with the input value unchanged (null included),
\* and no other key.
C14_UpdateEventPrefixesEveryKey ==
  UpdateSent
    => LET events == PrimaryCall.data.f["events"].e
           input == req.arguments.f["properties"].f
       IN /\ IsContext(PrimaryCall)
          /\ ContextRequests \ {Len(calls)} \subseteq
               {i \in 1..Len(calls) : IsEmailWrite(calls[i], env.profileId)}
          /\ PrimaryCall.data.f["profileId"] = Str(profileId)
          /\ Len(events) = 1
          /\ events[1].f["eventType"] = Str("updateProperties")
          /\ events[1].f["target"].f["itemId"] = Str(profileId)
          /\ LET update == events[1].f["properties"].f["update"].f
             IN /\ DOMAIN update = {"properties." \o k : k \in DOMAIN input}
                /\ \A k \in DOMAIN input : update["properties." \o k] = input[k]

\* Two properties have been sent, one of them null.
C14_Witness ==
  /\ UpdateSent
  /\ req.arguments.f["properties"] = Obj([age |-> Num(30), email |-> Null])
  /\ PrimaryCall.ok

\* A search_profiles call whose arguments passed validation and whose
\* search has been issued.
SearchSent ==
  /\ ToolCallDone
  /\ req.name = "search_profiles"
  /\ valid = T

Contains(propertyName, q) ==
  Obj([type |-> Str("profilePropertyCondition"),
       parameterValues |-> Obj([propertyName |-> Str(propertyName),
                                comparisonOperator |-> Str("contains"),
                                propertyValue |-> q])])

Given(arguments, k, d) == IF k \in DOMAIN arguments.f THEN arguments.f[k] ELSE d

\* C15: a valid search_profiles call with query q issues exactly one remote
\* call, a profile search whose condition is the boolean OR of three
\* `contains` conditions on properties.firstName, properties.lastName and
\* properties.email, each with value q, with the given limit or 10 and the
\* given offset or 0.
C15_SearchIsOrOfThreeContains ==
  SearchSent
    => /\ Len(calls) = 1
       /\ IsSearch(calls[1])
       /\ calls[1].data =
            Obj([offset |-> Given(req.arguments, "offset", Num(0)),
                 limit |-> Given(req.arguments, "limit", Num(10)),
                 condition |->
                   Obj([type |-> Str("booleanCondition"),
                        parameterValues |->
                          Obj([operator |-> Str("or"),
                               subConditions |-> Arr(<<
                                 Contains("properties.firstName", req.arguments.f["query"]),
                                 Contains("properties.lastName", req.arguments.f["query"]),
                                 Contains("properties.email", req.arguments.f["query"])>>)])])])

\* A search has been sent with a given offset and without a limit.
C15_Witness ==
  /\ SearchSent
  /\ "limit" \notin DOMAIN req.arguments.f
  /\ "offset" \in DOMAIN req.arguments.f
  /\ calls[1].data.f["limit"] = Num(10)

ReadRequest == req.method = "resources/read"
KnownUri == "unomi://profiles/list"

\* C16: reading any URI other than unomi://profiles/list ends in an
\* unknown-resource (InvalidRequest) fault without any remote call; reading
\* the known URI issues exactly one profile search (offset 0, limit 10,
\* match-all) and returns the remote's response as it came, or, if the
\* search failed in transport, an internal-error fault and no content.
C16_ReadResourceListsOrFaults ==
  ReadRequest
    => /\ req.uri # KnownUri
            => /\ pc = "done"
               /\ result = Fault("InvalidRequest")
               /\ calls = <<>>
       /\ (req.uri = KnownUri /\ pc # "done") => calls = <<>>
       /\ (req.uri = KnownUri /\ pc = "done")
            => /\ Len(calls) = 1
               /\ IsSearch(calls[1])
               /\ calls[1].data =
                    Obj([offset |-> Num(0), limit |-> Num(10),
                         condition |-> Obj([type |-> Str("matchAllCondition")])])
               /\ calls[1].ok
                    => result = [kind |-> "contents", uri |-> KnownUri,
                                 text |-> calls[1].outcome.data]
               /\ ~calls[1].ok => result = Fault("InternalError")

\* The list has been read and the search failed in transport.
C16_Witness ==
  /\ ReadRequest
  /\ req.uri = KnownUri
  /\ pc = "done"
  /\ ~calls[1].ok

MissingConfiguration ==
  \E k \in {"username", "password", "key", "profileId"} : env[k] = ""

\* C17: when the username, the password, the key or the fallback profile id
\* is missing at start-up, the process aborts before the server object is
\* constructed: no handler is ever registered, no connection opened, no
\* request handled and no remote call issued.
C17_MissingConfigurationAborts ==
  MissingConfiguration
    => /\ pc \in {"load", "aborted"}
       /\ handlers = {}
       /\ ~connected
       /\ req = NoRequest
       /\ calls = <<>>
       /\ history = NoHistory

\* The process has aborted because only the key is missing.
C17_Witness ==
  /\ pc = "aborted"
  /\ env.key = ""
  /\ env.username # "" /\ env.password # "" /\ env.profileId # ""

\* A create_scope call whose arguments passed validation and whose create
\* has been issued.
CreateSent ==
  /\ ToolCallDone
  /\ req.name = "create_scope"
  /\ valid = T

\* Member k of the record sent is the input's member k, or absent with it.
SameMember(record, arguments, k) ==
  IF k \in DOMAIN arguments.f
    THEN k \in DOMAIN record.f /\ record.f[k] = arguments.f[k]
    ELSE k \notin DOMAIN record.f

\* C18: a valid create_scope call issues exactly one remote call, a scope
\* create whose record has itemId, metadata.id and metadata.scope equal to
\* the input scope and carries the input name and description; no scope
\* read precedes it; on success the response echoes exactly the record
\* that was sent.
C18_CreateScopeSendsOneRecordAndEchoesIt ==
  CreateSent
    => LET record == calls[1].data IN
       /\ Len(calls) = 1
       /\ IsScopeCreate(calls[1])
       /\ ScopeReads = {}
       /\ record.f["itemId"] = req.arguments.f["scope"]
       /\ record.f["metadata"].f["id"] = req.arguments.f["scope"]
       /\ record.f["metadata"].f["scope"] = req.arguments.f["scope"]
       /\ SameMember(record.f["metadata"], req.arguments, "name")
       /\ SameMember(record.f["metadata"], req.arguments, "description")
       /\ calls[1].ok
            => /\ result.kind = "content"
               /\ ~result.isError
               /\ result.text.f["scope"] = record

\* A scope has been created with a name and without a description.
C18_Witness ==
  /\ CreateSent
  /\ calls[1].ok
  /\ "name" \in DOMAIN req.arguments.f
  /\ "description" \notin DOMAIN req.arguments.f

\* The scope ensurance of the my-profile call in progress has failed, in
\* its read or in its create.
EnsuranceFailed ==
  /\ ToolCall
  /\ req.name \in MyProfileTools
  /\ \E i \in ScopeReads \cup ScopeCreates : ~calls[i].ok

\* C19: when the scope ensurance of update_my_profile or get_my_profile
\* fails, in its read or in its create, the call ends in an internal-error
\* fault and nothing follows the failed call: no validation, no email
\* lookup, no email write, no primary Context Request.
C19_FailedEnsuranceStopsTheCall ==
  EnsuranceFailed
    => /\ pc = "done"
       /\ result = Fault("InternalError")
       /\ ~calls[Len(calls)].ok
       /\ \A i \in 1..(Len(calls) - 1) : calls[i].ok
       /\ valid = "none"
       /\ Searches = {}
       /\ ContextRequests = {}
       /\ Len(calls) <= 2

\* The scope was read as absent and its creation failed.
C19_Witness ==
  /\ EnsuranceFailed
  /\ Len(calls) = 2
  /\ IsScopeCreate(calls[2])

(***************************************************************************)
(* The process over a sequence of my-profile and create_scope calls, with  *)
(* a record of what the finished calls left at the remote.                 *)
(***************************************************************************)
Day(n) == n \div 2

\* The Context Requests of the call in progress: UTC day, profile id and
\* session id of each.
SentSessions ==
  {<<Day(calls[i].at), calls[i].data.f["profileId"], calls[i].data.f["sessionId"]>> :
     i \in ContextRequests}

\* The successful scope creations ensureScopeExists made in the call in
\* progress.
EnsureCreates ==
  IF ToolCall /\ req.name \in MyProfileTools
    THEN {i \in ScopeCreates : calls[i].ok}
    ELSE {}

\* The call in progress created the default scope, through either route.
CreatedDefaultScope ==
  \E i \in ScopeCreates :
    calls[i].ok /\ calls[i].data.f["itemId"] = Str("claude-desktop")

\* The remote answered a read of the default scope with nothing although an
\* earlier call had created it.
ForgotDefaultScope ==
  history.stored /\ \E i \in ScopeReads : ReadFoundNothing(calls[i])

ReturnRecording ==
  /\ pc = "done"
  /\ history.ensured + Cardinality(EnsureCreates) <= MaxCreates
  /\ history' =
       [sessions |-> history.sessions \cup SentSessions,
        stored |-> history.stored \/ CreatedDefaultScope,
        forgot |-> history.forgot \/ ForgotDefaultScope,
        ensured |-> history.ensured + Cardinality(EnsureCreates)]
  /\ pc' = "idle"
  /\ req' = NoRequest
  /\ calls' = <<>>
  /\ valid' = "none"
  /\ existingProfileId' = Undefined
  /\ profileId' = ""
  /\ result' = NoResult
  /\ UNCHANGED <<env, handlers, connected, now>>

HistoryNames == MyProfileTools \cup {"create_scope"}

HistoryArguments(name) ==
  IF name = "create_scope" THEN {Obj([scope |-> Str("claude-desktop")])}
  ELSE IF name = "update_my_profile"
    THEN {Obj([properties |-> Obj([age |-> Num(30)])])}
  ELSE {Obj(NoFields)}

InitHistory ==
  /\ Init
  /\ env.sourceId = ""
  /\ ConfigurationComplete

NextHistory ==
  \/ LoadModule
  \/ Run
  \/ Tick
  \/ \E name \in HistoryNames : \E arguments \in HistoryArguments(name) :
       CallTool(name, arguments)
  \/ \E outcome \in ScopeGetOutcomes : EnsureScopeGet(outcome)
  \/ \E outcome \in ScopePostOutcomes : EnsureScopePost(outcome)
  \/ CheckArguments
  \/ GetEffectiveProfileId
  \/ \E outcome \in SearchOutcomes : FindProfileByEmail(outcome)
  \/ \E outcome \in ContextWriteOutcomes : WriteEmail(outcome)
  \/ \E outcome \in ScopePostOutcomes : CreateScope(outcome)
  \/ \E outcome \in ContextWriteOutcomes : UpdateMyProfile(outcome)
  \/ \E outcome \in ContextOutcomes : GetMyProfile(outcome)
  \/ ReturnRecording

SpecHistory == InitHistory /\ [][NextHistory]_vars

\* Every Context Request the process has sent so far: those of the earlier
\* calls and those of the call in progress.
AllSessions == history.sessions \cup SentSessions

\* C13: over any sequence of get_my_profile and update_my_profile calls,
\* the Context Requests sent within one UTC day for the same profile id,
\* the resolver's email write included, carry the same session id, and
\* those sent for different profile ids carry different session ids.
C13_OneSessionPerProfileAndDay ==
  \A a \in AllSessions : \A b \in AllSessions :
    a[1] = b[1] => (a[2] = b[2] <=> a[3] = b[3])

\* The call in progress has sent the resolver's email write and its primary
\* request on one day, both for the fallback id, for which an earlier call
\* of that day had sent a request too, as another had for a matched id.
C13_Witness ==
  /\ ToolCallDone
  /\ req.name \in MyProfileTools
  /\ Cardinality(ContextRequests) = 2
  /\ \A i \in ContextRequests : Day(calls[i].at) = Day(now)
  /\ SentSessions \subseteq history.sessions
  /\ \E a \in history.sessions : \E b \in SentSessions :
       a[1] = b[1] /\ a[2] # b[2] /\ a[3] # b[3]

\* C20: against a remote that retains every scope it was successfully asked
\* to create and answers later reads of it with its non-empty record, the
\* calls processed one at a time make at most one successful create of the
\* default scope through ensureScopeExists; and no call deletes a scope.
C20_DefaultScopeCreatedAtMostOnce ==
  /\ ~(history.forgot \/ ForgotDefaultScope)
       => history.ensured + Cardinality(EnsureCreates) <= 1
  /\ \A i \in 1..Len(calls) : calls[i].method \in {"GET", "POST"}

\* An earlier call has created the default scope through ensureScopeExists,
\* the remote has kept it, and the call in progress has read it back and
\* gone on without creating it.
C20_Witness ==
  /\ history.ensured = 1
  /\ ~history.forgot
  /\ ToolCallDone
  /\ req.name \in MyProfileTools
  /\ ScopeReads # {}
  /\ \A i \in ScopeReads : calls[i].ok /\ ~ReadFoundNothing(calls[i])
  /\ ScopeCreates = {}
  /\ ContextRequests # {}

\* A Context Request that carries events writes profile data; one without
\* events only reads.
ProfileWrites ==
  {i \in ContextRequests : "events" \in DOMAIN calls[i].data.f}

IsProfileRead(c, id) ==
  c.method = "GET" /\ c.url = "/cxs/profiles/" \o id

\* C21: a get_my_profile call issues a write to profile data (an
\* updateProperties event) only when an email is configured and the email
\* lookup yielded no match; its other remote calls are the scope read, a
\* possible create of the default scope, the lookup search and the context
\* read.  get_profile and search_profiles never run the scope ensurance or
\* the resolver, and on valid arguments issue exactly one remote read each.
C21_OnlyTheFallbackWritesProfileData ==
  /\ (ToolCall /\ req.name = "get_my_profile")
       => /\ \A i \in 1..Len(calls) :
               \/ IsScopeRead(calls[i])
               \/ IsScopeCreate(calls[i])
                    /\ calls[i].data.f["itemId"] = Str("claude-desktop")
               \/ IsSearch(calls[i])
               \/ IsContext(calls[i])
          /\ Cardinality(Searches) <= 1
          /\ Cardinality(ProfileWrites) <= 1
          /\ \A i \in ProfileWrites :
               /\ env.email # ""
               /\ Searches # {}
               /\ ~LookupMatched(calls[Lookup])
               /\ IsEmailWrite(calls[i], env.profileId)
  /\ (ToolCall /\ req.name \in {"get_profile", "search_profiles"})
       => /\ ScopeReads = {}
          /\ ScopeCreates = {}
          /\ ContextRequests = {}
          /\ profileId = ""
          /\ existingProfileId = Undefined
          /\ (pc # "done" \/ valid # T) => calls = <<>>
          /\ (pc = "done" /\ valid = T)
               => /\ Len(calls) = 1
                  /\ IF req.name = "get_profile"
                       THEN IsProfileRead(calls[1], req.arguments.f["profileId"].s)
                       ELSE IsSearch(calls[1])

\* A get_my_profile call has written the email after a lookup without a
\* match and has then read the context.
C21_Witness ==
  /\ ToolCallDone
  /\ req.name = "get_my_profile"
  /\ Cardinality(ProfileWrites) = 1
  /\ Cardinality(ContextRequests) = 2
  /\ calls[Len(calls)].ok
  /\ "events" \notin DOMAIN calls[Len(calls)].data.f

====
